---- MODULE Spec2Model ----
(***************************************************************************)
(* Package rc: reference counted file descriptors.                         *)
(*                                                                         *)
(* One FD value shared by NThreads goroutines.  The FD's sync.RWMutex is   *)
(* used as the reference count: Do (v2) and Incref/Decref (v1) hold it in  *)
(* shared mode, Init and Close take it in exclusive mode.  Every goroutine *)
(* loops forever over the exported operations; a step of the model is one  *)
(* of: the call of an operation, the acquisition of the lock, the code run *)
(* under the lock, or the return of caller supplied code (the Do callback, *)
(* the release operation).                                                 *)
(*                                                                         *)
(* Spec is that system with well behaved callbacks, FairSpec its v2 part   *)
(* with the scheduling of the Go runtime, SpecReentrant adds callbacks     *)
(* that call Close on the FD they hold.  SpecReg is NFds FDs that report   *)
(* to one LifetimeRegistry, SpecTwin two FDs that get the same calls, one  *)
(* with and one without registry, and SpecReport applies FDStats.Report    *)
(* to every FDStats value with counters up to MaxCount.  SpecWrap applies  *)
(* WrapSyscallError to what the calls return, SpecFinalizer lets the       *)
(* garbage collector run the finalizer, SpecLock takes the registry's own  *)
(* lock apart, SpecRace is Init called by all goroutines at once, and      *)
(* SpecNested adds callbacks that call Do on the FD they hold.             *)
(***************************************************************************)
EXTENDS Integers, Sequences, FiniteSets, TLC

\* Number of goroutines sharing the FD.
NThreads == 2

Threads == 1..NThreads

\* Number of FDs that report to the LifetimeRegistry.
NFds == 2

FDs == 1..NFds

\* Largest counter of the FDStats values Report is applied to.
MaxCount == 2

\* The raw descriptors handed to Init (the values used by the tests).
Handles == {42, 43}

Nil == "nil"
ErrUninitializedFD == "rc: use of uninitialized file descriptor"
ErrClosedFD == "rc: use of closed file descriptor"
ErrMultipleInit == "rc: multiple calls to Init"
\* errors produced by caller supplied code
ErrTest == "test error"
ErrBad == "bad"

\* The release operations handed to Init: dummyClose always succeeds,
\* badClose always fails.  SysClose is the v1 package hook CloseFunc
\* (close(2)), which may do either.
CloseFuncs == {"dummyClose", "badClose"}
SysClose == "CloseFunc"

\* The results a release operation may produce.
CallCloseFunc(cf) ==
    CASE cf = "dummyClose" -> {Nil}
      [] cf = "badClose" -> {ErrBad}
      [] OTHER -> {Nil, ErrBad}

\* The results a Do callback may produce.
FnResults == {Nil, ErrTest}

VARIABLES
    api,        \* "v2": Init/Do/Close with closeFunc; "v1": Init/Incref/Decref/Close
    fd,         \* the FD struct: rawfd, initialized, closed, closeFunc, lr
    mu,         \* fd.mu, the sync.RWMutex
    finalizer,  \* TRUE while runtime.SetFinalizer(fd, Close) is in force
    lreg,       \* the LifetimeRegistry
    pc,         \* where each goroutine is
    frame,      \* the arguments of the caller supplied code each goroutine runs
    last,       \* history: the call that returned last
    life,       \* history: the lifecycle as seen through the results of calls
    okInit,     \* history: the arguments of the Init that succeeded
    released,   \* history: the invocations of the release operation
    drain,      \* history: per Close call, the Do calls active at its request
    fds,        \* the FD structs that report to the one LifetimeRegistry
    rlast       \* history: the call on fds, or on the registry, that returned last

vars == <<api, fd, mu, finalizer, lreg, pc, frame, last, life, okInit, released, drain,
          fds, rlast>>

NoFrame == [h |-> 0, cf |-> Nil]
NoInit == [h |-> 0, cf |-> Nil]

\* left: the calls active at the request of Close that have not returned yet;
\* waited: there were such calls.
NoDrain == [left |-> {}, waited |-> FALSE]
None == "none"

\* The record of a call that returns err: h is the descriptor it handed to
\* caller supplied code (0 when it ran none), inner what that code returned
\* (None when it ran none), life the lifecycle before the call's effect.
Ev(op, err, h, inner) == [op |-> op, err |-> err, h |-> h, inner |-> inner, life |-> life]

----------------------------------------------------------------------------
(* sync.RWMutex, as the FD uses it.  w is the goroutine that has announced *)
(* a Lock (0 when none): from then on new RLock calls block.  locked is    *)
(* TRUE once that goroutine holds the lock exclusively.  r counts the      *)
(* read locks each goroutine holds, blocked are the goroutines asleep in   *)
(* RLock.                                                                  *)

\* RLock returns at once unless a writer is pending or active.  (The
\* ReaderPreferring variant is a lock that only an active writer blocks.)
RLockGrantedReaderPreferring(m) == ~m.locked
RLockGranted(m) == m.w = 0

\* A pending Lock proceeds once no read lock is held.  (The IgnoringReaders
\* variant is a Close that does not wait for the references.)
LockGrantedIgnoringReaders(m) == TRUE
LockGranted(m) == \A t \in Threads : m.r[t] = 0

RLock(m, t) ==
    IF RLockGranted(m)
    THEN [m EXCEPT !.r[t] = @ + 1]
    ELSE [m EXCEPT !.blocked = @ \cup {t}]

RUnlock(m, t) == [m EXCEPT !.r[t] = @ - 1]

\* Unlock hands the lock to every reader that blocked behind the writer.
Unlock(m) ==
    [w |-> 0, locked |-> FALSE, blocked |-> {},
     r |-> [t \in Threads |-> IF t \in m.blocked THEN m.r[t] + 1 ELSE m.r[t]]]

\* The goroutines woken by Unlock resume after their RLock.
Woken(m, t, p) ==
    [u \in Threads |-> IF u = t THEN "idle"
                       ELSE IF u \in m.blocked
                            THEN IF p[u] = "fn_rlock" THEN "fn_check" ELSE "check"
                            ELSE p[u]]

----------------------------------------------------------------------------
(* LifetimeRegistry                                                        *)

\* mu is the lock of the registry: the goroutine that holds it, 0 when free.
ZeroRegistry == [mu |-> 0, initialized |-> 0, closed |-> 0, closeFailed |-> 0, inFlight |-> {}]

\* recordInit: lr may be nil.  The stack is the call site, here the caller.
recordInit(l, reg, h, t) ==
    IF l = Nil THEN reg
    ELSE [reg EXCEPT !.initialized = @ + 1,
                     !.inFlight = {e \in @ : e[1] # h} \cup {<<h, t>>}]

\* recordClose: lr may be nil.  (The KeepsFailed variant leaves the entry of
\* a descriptor whose release operation failed.)
recordCloseKeepsFailed(l, reg, h, err) ==
    IF l = Nil THEN reg
    ELSE [reg EXCEPT !.closeFailed = IF err # Nil THEN @ + 1 ELSE @,
                     !.closed = IF err = Nil THEN @ + 1 ELSE @,
                     !.inFlight = IF err # Nil THEN @ ELSE {e \in @ : e[1] # h}]
recordClose(l, reg, h, err) ==
    IF l = Nil THEN reg
    ELSE [reg EXCEPT !.closeFailed = IF err # Nil THEN @ + 1 ELSE @,
                     !.closed = IF err = Nil THEN @ + 1 ELSE @,
                     !.inFlight = {e \in @ : e[1] # h}]

\* The zero FD struct.  The fields after lr are history: releasing is TRUE
\* while the release operation of the FD runs, lrInit and lrClose are the
\* registry the FD reported its Init and its Close to (None before).
\* at is where the call in progress on the FD is, res what its release
\* operation returned, when the calls are taken apart at the lock of the
\* registry.
ZeroFD == [rawfd |-> 0, initialized |-> FALSE, closed |-> FALSE, closeFunc |-> Nil,
           lr |-> Nil, releasing |-> FALSE, lrInit |-> None, lrClose |-> None,
           at |-> "idle", res |-> Nil]

NoResult == [op |-> None, err |-> Nil, out |-> None]

----------------------------------------------------------------------------
InitFD ==
    /\ api \in {"v1", "v2"}
    /\ fd = [rawfd |-> 0, initialized |-> FALSE, closed |-> FALSE,
             closeFunc |-> Nil, lr |-> Nil]
    /\ mu = [w |-> 0, locked |-> FALSE, blocked |-> {}, r |-> [t \in Threads |-> 0]]
    /\ finalizer = FALSE
    /\ pc = [t \in Threads |-> "idle"]
    /\ frame = [t \in Threads |-> NoFrame]
    /\ last = [op |-> None, err |-> Nil, h |-> 0, inner |-> None, life |-> "uninit"]
    /\ life = "uninit"
    /\ okInit = NoInit
    /\ released = <<>>
    /\ drain = [t \in Threads |-> NoDrain]
    /\ fds = [i \in FDs |-> ZeroFD]
    /\ rlast = NoResult

Init == InitFD /\ lreg = ZeroRegistry

\* The release operation of the FD: its closeFunc, or in v1 the package hook.
ReleaseOps == IF api = "v2" THEN CloseFuncs ELSE {SysClose}

----------------------------------------------------------------------------
(* The lifecycle checks made under the lock.                               *)

\* v2 Init looks at closed first, v1 Init at initialized first.  The
\* definitions named No...Check are the same code with one check left out.
InitErrV1(f) ==
    IF f.initialized THEN ErrMultipleInit
    ELSE IF f.closed THEN ErrClosedFD ELSE Nil

InitErrNoInitCheck(f) == IF f.closed THEN ErrClosedFD ELSE Nil
InitErrNoClosedCheck(f) == IF f.initialized /\ ~f.closed THEN ErrMultipleInit ELSE Nil
InitErr(f) ==
    IF f.closed THEN ErrClosedFD
    ELSE IF f.initialized THEN ErrMultipleInit ELSE Nil

DoErrNoClosedCheck(f) == IF ~f.initialized THEN ErrUninitializedFD ELSE Nil
DoErrNoInitCheck(f) == IF f.closed THEN ErrClosedFD ELSE Nil
DoErr(f) ==
    IF ~f.initialized THEN ErrUninitializedFD
    ELSE IF f.closed THEN ErrClosedFD ELSE Nil

IncrefErr(f) ==
    IF ~f.initialized THEN ErrUninitializedFD
    ELSE IF f.closed THEN ErrClosedFD ELSE Nil

CloseErrNoClosedCheck(f) == IF ~f.initialized THEN ErrUninitializedFD ELSE Nil
CloseErrNoInitCheck(f) == IF f.closed THEN ErrClosedFD ELSE Nil
CloseErr(f) ==
    IF ~f.initialized THEN ErrUninitializedFD
    ELSE IF f.closed THEN ErrClosedFD ELSE Nil

\* The descriptor Do hands to its callback.
DoArgZero(f) == 0
DoArg(f) == f.rawfd

\* Close clears the finalizer: runtime.SetFinalizer(fd, nil).  (LeftArmed
\* is a Close that does not.)
FinalizerLeftArmed == TRUE
SetFinalizerNil == FALSE

\* Close marks the FD closed before it invokes the release operation.
MarkClosedSkipped(f) == f
MarkClosed(f) == [f EXCEPT !.closed = TRUE]

\* What Do returns when its callback returned r, and Close when the
\* release operation returned e.
DoResultWrapped(r) == IF r = Nil THEN Nil ELSE "wrapped"
DoResult(r) == r

CloseResultSwallowed(e) == Nil
CloseResult(e) == e

----------------------------------------------------------------------------
(* FD.TrackLifetime                                                        *)
TrackLifetime(t, l) ==
    /\ api = "v2"
    /\ pc[t] = "idle"
    /\ fd.lr # l
    /\ fd' = [fd EXCEPT !.lr = l]
    /\ UNCHANGED <<fds, rlast, api, mu, finalizer, lreg, pc, frame, last, life, okInit, released, drain>>

(* FD.Init is called: fd.mu.Lock() is requested.                           *)
InitCall(t) ==
    /\ pc[t] = "idle"
    /\ pc' = [pc EXCEPT ![t] = "init_wait"]
    /\ UNCHANGED <<fds, rlast, api, fd, mu, finalizer, lreg, frame, last, life, okInit, released, drain>>

(* fd.mu.Lock(), first half: the goroutine becomes the pending writer.     *)
Lock(t) ==
    /\ pc[t] \in {"init_wait", "close_wait", "fn_close_wait"}
    /\ mu.w = 0
    /\ mu' = [mu EXCEPT !.w = t]
    /\ pc' = [pc EXCEPT ![t] = CASE pc[t] = "init_wait" -> "init_pending"
                                 [] pc[t] = "close_wait" -> "close_pending"
                                 [] OTHER -> "fn_close_pending"]
    /\ UNCHANGED <<fds, rlast, api, fd, finalizer, lreg, frame, last, life, okInit, released, drain>>

(* The fields of the FD when Init returns err: the assignments come after  *)
(* the early returns.  (The BeforeChecks variant assigns first.)           *)
InitStoreBeforeChecks(f, h, cf, err) ==
    [f EXCEPT !.rawfd = h, !.initialized = TRUE, !.closeFunc = cf]
InitStore(f, h, cf, err) ==
    IF err = Nil THEN [f EXCEPT !.rawfd = h, !.initialized = TRUE, !.closeFunc = cf]
    ELSE f

(* FD.Init(h, cf) under the lock, up to its return.                        *)
FDInit(t, h, cf) ==
    /\ pc[t] = "init_pending"
    /\ cf \in ReleaseOps
    /\ LockGranted(mu)
    /\ LET err == IF api = "v2" THEN InitErr(fd) ELSE InitErrV1(fd)
       IN /\ fd' = InitStore(fd, h, cf, err)
          /\ IF err = Nil
             THEN /\ lreg' = recordInit(fd.lr, lreg, h, t)
                  /\ finalizer' = TRUE
                  /\ okInit' = [h |-> h, cf |-> cf]
                  /\ life' = "init"
             ELSE UNCHANGED <<lreg, finalizer, okInit, life>>
          /\ last' = Ev("Init", err, 0, None)
    /\ mu' = Unlock(mu)
    /\ pc' = Woken(mu, t, pc)
    /\ UNCHANGED <<fds, rlast, api, frame, released, drain>>

(* FD.Do is called: fd.mu.RLock().                                         *)
DoCall(t) ==
    /\ api = "v2"
    /\ pc[t] = "idle"
    /\ mu' = RLock(mu, t)
    /\ pc' = [pc EXCEPT ![t] = IF RLockGranted(mu) THEN "check" ELSE "rlock"]
    /\ UNCHANGED <<fds, rlast, api, fd, finalizer, lreg, frame, last, life, okInit, released, drain>>

(* FD.Do holding the read lock: the checks, then fn(fd.rawfd) starts.      *)
DoCheck(t) ==
    /\ api = "v2"
    /\ pc[t] = "check"
    /\ IF DoErr(fd) = Nil
       THEN /\ pc' = [pc EXCEPT ![t] = "fn"]
            /\ frame' = [frame EXCEPT ![t].h = DoArg(fd)]
            /\ UNCHANGED <<mu, last>>
       ELSE /\ pc' = [pc EXCEPT ![t] = "idle"]
            /\ mu' = RUnlock(mu, t)
            /\ last' = Ev("Do", DoErr(fd), 0, None)
            /\ UNCHANGED frame
    /\ UNCHANGED <<fds, rlast, api, fd, finalizer, lreg, life, okInit, released, drain>>

(* The callback returns r; Do gives the read lock back and returns.        *)
DoReturn(t, r) ==
    /\ api = "v2"
    /\ pc[t] = "fn"
    /\ pc' = [pc EXCEPT ![t] = "idle"]
    /\ mu' = RUnlock(mu, t)
    /\ last' = Ev("Do", DoResult(r), frame[t].h, r)
    /\ frame' = [frame EXCEPT ![t] = NoFrame]
    /\ drain' = [u \in Threads |-> [drain[u] EXCEPT !.left = @ \ {t}]]
    /\ UNCHANGED <<fds, rlast, api, fd, finalizer, lreg, life, okInit, released>>

(* FD.Incref (v1) is called: fd.mu.RLock().                                *)
IncrefCall(t) ==
    /\ api = "v1"
    /\ pc[t] = "idle"
    /\ mu' = RLock(mu, t)
    /\ pc' = [pc EXCEPT ![t] = IF RLockGranted(mu) THEN "check" ELSE "rlock"]
    /\ UNCHANGED <<fds, rlast, api, fd, finalizer, lreg, frame, last, life, okInit, released, drain>>

\* The lock when Incref returns an error: fd.mu.RUnlock() comes before the
\* return.  (The KeepsLock variant returns without it.)
IncrefFailKeepsLock(m, t) == m
IncrefFail(m, t) == RUnlock(m, t)

(* FD.Incref holding the read lock: it returns the descriptor and keeps    *)
(* the read lock, or gives the lock back and returns an error.             *)
IncrefCheck(t) ==
    /\ api = "v1"
    /\ pc[t] = "check"
    /\ IF IncrefErr(fd) = Nil
       THEN /\ pc' = [pc EXCEPT ![t] = "fn"]
            /\ frame' = [frame EXCEPT ![t].h = fd.rawfd]
            /\ last' = Ev("Incref", Nil, fd.rawfd, None)
            /\ UNCHANGED mu
       ELSE /\ pc' = [pc EXCEPT ![t] = "idle"]
            /\ mu' = IncrefFail(mu, t)
            /\ last' = Ev("Incref", IncrefErr(fd), 0, None)
            /\ UNCHANGED frame
    /\ UNCHANGED <<fds, rlast, api, fd, finalizer, lreg, life, okInit, released, drain>>

(* FD.Decref (v1): fd.mu.RUnlock().                                        *)
Decref(t) ==
    /\ api = "v1"
    /\ pc[t] = "fn"
    /\ pc' = [pc EXCEPT ![t] = "idle"]
    /\ mu' = RUnlock(mu, t)
    /\ frame' = [frame EXCEPT ![t] = NoFrame]
    /\ drain' = [u \in Threads |-> [drain[u] EXCEPT !.left = @ \ {t}]]
    /\ UNCHANGED <<fds, rlast, api, fd, finalizer, lreg, last, life, okInit, released>>

\* Where a goroutine resumes when its Close returns: in the caller supplied
\* code that called it, or in the goroutine's own loop.
Caller(p) == IF p \in {"fn_close_pending", "fn_release"} THEN "fn" ELSE "idle"

(* FD.Close is called: fd.mu.Lock() is requested.                          *)
CloseCall(t) ==
    /\ pc[t] = "idle"
    /\ pc' = [pc EXCEPT ![t] = "close_wait"]
    /\ drain' = [drain EXCEPT ![t] = [left |-> {u \in Threads : pc[u] = "fn"},
                                       waited |-> \E u \in Threads : pc[u] = "fn"]]
    /\ UNCHANGED <<fds, rlast, api, fd, mu, finalizer, lreg, frame, last, life, okInit, released>>

(* FD.Close under the lock: the checks, the finalizer is cleared, the FD   *)
(* is marked closed and the release operation is invoked.                  *)
CloseCheck(t) ==
    /\ pc[t] \in {"close_pending", "fn_close_pending"}
    /\ LockGranted(mu)
    /\ IF CloseErr(fd) = Nil
       THEN /\ finalizer' = SetFinalizerNil
            /\ fd' = MarkClosed(fd)
            /\ mu' = [mu EXCEPT !.locked = TRUE]
            /\ pc' = [pc EXCEPT ![t] = IF pc[t] = "close_pending" THEN "release"
                                         ELSE "fn_release"]
            /\ frame' = [frame EXCEPT ![t] = [h |-> fd.rawfd, cf |-> fd.closeFunc]]
            /\ released' = Append(released, [h |-> fd.rawfd, cf |-> fd.closeFunc])
            /\ UNCHANGED last
       ELSE /\ mu' = Unlock(mu)
            /\ pc' = [Woken(mu, t, pc) EXCEPT ![t] = Caller(pc[t])]
            /\ last' = Ev("Close", CloseErr(fd), 0, None)
            /\ UNCHANGED <<fd, finalizer, released, frame>>
    /\ drain' = [drain EXCEPT ![t].waited = IF CloseErr(fd) = Nil THEN @ ELSE FALSE]
    /\ UNCHANGED <<fds, rlast, api, lreg, life, okInit>>

(* The release operation returns e; Close records it, unlocks and returns. *)
CloseReturn(t, e) ==
    /\ pc[t] \in {"release", "fn_release"}
    /\ e \in CallCloseFunc(frame[t].cf)
    /\ lreg' = recordClose(fd.lr, lreg, fd.rawfd, e)
    /\ mu' = Unlock(mu)
    /\ pc' = [Woken(mu, t, pc) EXCEPT ![t] = Caller(pc[t])]
    /\ last' = Ev("Close", CloseResult(e), frame[t].h, e)
    /\ frame' = [frame EXCEPT ![t] = NoFrame]
    /\ life' = IF e = Nil THEN "closed" ELSE "close_failed"
    /\ drain' = [drain EXCEPT ![t].waited = FALSE]
    /\ UNCHANGED <<fds, rlast, api, fd, finalizer, okInit, released>>

Next ==
    \E t \in Threads :
        \/ \E l \in {Nil, "lreg"} : TrackLifetime(t, l)
        \/ InitCall(t)
        \/ Lock(t)
        \/ \E h \in Handles, cf \in CloseFuncs \cup {SysClose} : FDInit(t, h, cf)
        \/ DoCall(t)
        \/ DoCheck(t)
        \/ \E r \in FnResults : DoReturn(t, r)
        \/ IncrefCall(t)
        \/ IncrefCheck(t)
        \/ Decref(t)
        \/ CloseCall(t)
        \/ CloseCheck(t)
        \/ \E e \in {Nil, ErrBad} : CloseReturn(t, e)

Spec == Init /\ [][Next]_vars

----------------------------------------------------------------------------
(* Properties.                                                             *)

InFn(t) == pc[t] = "fn"
Waiting(t) == pc[t] \in {"close_wait", "close_pending"}

\* C1 Drain-before-release: a Close call has neither marked the FD closed
\* nor returned while a Do call (or, in v1, a reference) that was active when
\* the Close was requested is still active.
C1_DrainBeforeRelease ==
    \A t \in Threads :
        /\ drain[t].left # {} => Waiting(t) /\ ~fd.closed
        /\ \A u \in drain[t].left : InFn(u)

\* A Close that was requested on an initialized FD while a Do was in its
\* callback, and that has gone on to invoke the release operation.
C1_Witness ==
    \E t \in Threads :
        /\ api = "v2"
        /\ pc[t] = "release"
        /\ drain[t].waited
        /\ drain[t].left = {}

\* C2 Handle validity: while a goroutine runs the callback of a Do that
\* passed its checks, or holds a reference obtained from Incref, the FD is
\* initialized and not closed and the release operation has not been invoked.
C2_HandleValid ==
    \A t \in Threads :
        InFn(t) => /\ fd.initialized
                   /\ ~fd.closed
                   /\ released = <<>>
                   /\ mu.r[t] > 0

\* A reference is held (v1) while a Close is pending behind it.
C2_Witness ==
    \E t, u \in Threads :
        /\ api = "v1"
        /\ InFn(t)
        /\ pc[u] = "close_pending"

\* C3 Release exactly once: the release operation is invoked at most once,
\* with the descriptor and the operation given to the successful Init; the
\* Close that invoked it returns its result, and every other Close made once
\* an Init has succeeded returns ErrClosedFD and invokes nothing.
C3_ReleaseOnce ==
    /\ Len(released) <= 1
    /\ \A i \in 1..Len(released) : released[i] = okInit
    /\ last.op = "Close" =>
         /\ last.h # 0 => /\ last.h = okInit.h
                          /\ last.life = "init"
                          /\ last.err \in CallCloseFunc(okInit.cf)
                          /\ Len(released) = 1
         /\ last.h = 0 /\ last.life # "uninit" =>
                          /\ last.err = ErrClosedFD
                          /\ last.inner = None

\* A second Close has returned ErrClosedFD after the release was done once.
C3_Witness ==
    /\ last.op = "Close"
    /\ last.err = ErrClosedFD
    /\ last.h = 0
    /\ Len(released) = 1

\* C4 Post-close immutability (v2): once a Close has returned nil, every
\* Init, Do and Close that returns afterwards returns ErrClosedFD without
\* running its callback or the release operation, and the FD stays closed.
C4_PostClose ==
    api = "v2" =>
        /\ last.life = "closed" =>
             /\ last.err = ErrClosedFD
             /\ last.h = 0
             /\ last.inner = None
        /\ life = "closed" =>
             /\ fd.initialized /\ fd.closed
             /\ \A t \in Threads : pc[t] \notin {"fn", "release"}
             /\ Len(released) = 1

\* An Init made after the successful Close was refused with ErrClosedFD.
C4_Witness ==
    /\ api = "v2"
    /\ last.life = "closed"
    /\ last.op = "Init"
    /\ last.err = ErrClosedFD

\* C5 Init-once: every Init that runs while the FD is Initialized (an Init
\* has succeeded and no Close has released it) fails with ErrMultipleInit,
\* whatever descriptor and release operation it is given.
C5_InitOnce ==
    /\ last.op = "Init" /\ last.life = "init" => last.err = ErrMultipleInit
    /\ life = "init" => fd.rawfd = okInit.h /\ fd.closeFunc = okInit.cf

C5_Witness ==
    /\ last.op = "Init"
    /\ last.life = "init"
    /\ last.err = ErrMultipleInit
    /\ life = "init"

\* C6 Use before init: while no Init has succeeded, every Do (Incref) and
\* Close returns ErrUninitializedFD, neither a callback nor the release
\* operation is invoked, the FD stays uninitialized, and an Init made in
\* that state succeeds.
C6_UseBeforeInit ==
    /\ last.life = "uninit" /\ last.op \in {"Do", "Incref", "Close"} =>
         /\ last.err = ErrUninitializedFD
         /\ last.h = 0
         /\ last.inner = None
    /\ last.life = "uninit" /\ last.op = "Init" => last.err = Nil
    /\ life = "uninit" =>
         /\ ~fd.initialized /\ ~fd.closed
         /\ released = <<>>
         /\ \A t \in Threads : pc[t] \notin {"fn", "release"}

\* An Init succeeds on an FD on which a Close had been refused.
C6_Witness ==
    /\ last.op = "Close"
    /\ last.err = ErrUninitializedFD
    /\ life = "uninit"
    /\ \E t \in Threads : pc[t] = "init_pending"

\* C7 A failed release is terminal (v2): the Close whose release operation
\* failed returns that error; from then on the FD is closed, the release
\* operation is not invoked again and every Init, Do and Close returns
\* ErrClosedFD.
C7_FailedReleaseTerminal ==
    api = "v2" =>
        /\ last.op = "Close" /\ last.inner # None => last.err = last.inner
        /\ life = "close_failed" =>
             /\ fd.initialized /\ fd.closed
             /\ Len(released) = 1
             /\ \A t \in Threads : pc[t] \notin {"fn", "release"}
        /\ last.life = "close_failed" =>
             /\ last.err = ErrClosedFD
             /\ last.h = 0
             /\ last.inner = None

\* A Close made after the failed release was refused with ErrClosedFD.
C7_Witness ==
    /\ api = "v2"
    /\ last.life = "close_failed"
    /\ last.op = "Close"
    /\ last.err = ErrClosedFD
    /\ okInit.cf = "badClose"

\* C8 Callback error passthrough: a Do that ran its callback returns the
\* callback's value, the Close that ran the release operation returns the
\* release operation's value.
C8_Passthrough ==
    last.inner # None =>
        /\ last.op \in {"Do", "Close"}
        /\ last.err = last.inner
        /\ last.h = okInit.h

\* A Do returned the error of its callback.
C8_Witness ==
    /\ last.op = "Do"
    /\ last.inner = ErrTest
    /\ last.err = ErrTest

\* C9 Concurrent access (v2): every goroutine inside a Do callback was
\* handed the descriptor given to the successful Init, the FD is initialized
\* and not closed meanwhile, and when the callback returns Do returns its
\* value and leaves the FD as it was.  All goroutines can be inside their
\* callbacks at once (C9_Witness).
C9_ConcurrentAccess ==
    [][api = "v2" =>
        \A t \in Threads :
            InFn(t) =>
                /\ frame[t].h = okInit.h
                /\ fd.rawfd = okInit.h
                /\ fd.initialized /\ ~fd.closed
                /\ pc'[t] \in {"fn", "idle"}
                /\ pc'[t] = "idle" =>
                     /\ fd' = fd
                     /\ last'.op = "Do"
                     /\ last'.err = last'.inner
                     /\ last'.h = okInit.h]_vars

C9_Witness ==
    /\ api = "v2"
    /\ \A t \in Threads : InFn(t) /\ frame[t].h = fd.rawfd /\ mu.r[t] = 1
    /\ fd.rawfd \in Handles

----------------------------------------------------------------------------
(* Scheduling.  The code run under a lock, the callbacks and the release   *)
(* operation terminate (weak fairness).  sync.Mutex, which serialises the  *)
(* writers of a sync.RWMutex, hands the lock over to a goroutine that has  *)
(* waited long enough (starvation mode), hence strong fairness of Lock.    *)
(* Nothing obliges a goroutine to call an operation.                       *)
Fairness ==
    \A t \in Threads :
        /\ SF_vars(Lock(t))
        /\ WF_vars(\E h \in Handles, cf \in CloseFuncs : FDInit(t, h, cf))
        /\ WF_vars(DoCheck(t))
        /\ WF_vars(\E r \in FnResults : DoReturn(t, r))
        /\ WF_vars(CloseCheck(t))
        /\ WF_vars(\E e \in {Nil, ErrBad} : CloseReturn(t, e))

\* The goroutines use the v2 FD, without a registry.
InitV2 == Init /\ api = "v2"

NextV2 ==
    \E t \in Threads :
        \/ InitCall(t)
        \/ Lock(t)
        \/ \E h \in Handles, cf \in CloseFuncs : FDInit(t, h, cf)
        \/ DoCall(t)
        \/ DoCheck(t)
        \/ \E r \in FnResults : DoReturn(t, r)
        \/ CloseCall(t)
        \/ CloseCheck(t)
        \/ \E e \in {Nil, ErrBad} : CloseReturn(t, e)

FairSpec == InitV2 /\ [][NextV2]_vars /\ Fairness

\* C10 Release is not starved: under fair scheduling a Close that has
\* requested the lock eventually returns, whatever calls the other
\* goroutines keep making.
C10_CloseNotStarved ==
    \A t \in Threads : Waiting(t) ~> (pc[t] = "idle")

\* A Close is pending while another goroutine's new Do has queued behind it.
C10_Witness ==
    \E t, u \in Threads :
        /\ pc[t] = "close_pending"
        /\ pc[u] = "rlock"
        /\ u \in mu.blocked
        /\ fd.initialized /\ ~fd.closed

----------------------------------------------------------------------------
\* The lifecycle state of an FD struct, read off its flag pair.
LifeCycle(f) ==
    IF f.closed THEN (IF f.initialized THEN "Closed" ELSE "ClosedUninitialized")
    ELSE IF f.initialized THEN "Initialized" ELSE "Uninitialized"

\* C12 Monotonic lifecycle: in every reachable state closed implies
\* initialized, so the flag pair is one of (false,false), (true,false),
\* (true,true); and no step regresses: a step leaves the lifecycle where it
\* is or moves it Uninitialized -> Initialized or Initialized -> Closed.
C12_MonotonicLifecycle ==
    /\ [](fd.closed => fd.initialized)
    /\ [][\/ LifeCycle(fd') = LifeCycle(fd)
          \/ LifeCycle(fd) = "Uninitialized" /\ LifeCycle(fd') = "Initialized"
          \/ LifeCycle(fd) = "Initialized" /\ LifeCycle(fd') = "Closed"]_vars

\* The FD went through its whole lifecycle: a Close has returned.
C12_Witness ==
    /\ LifeCycle(fd) = "Closed"
    /\ last.op = "Close" /\ last.life = "init"
    /\ \A t \in Threads : pc[t] = "idle"

\* C19 (as stated) The lock of the FD is never held across caller supplied
\* code: no goroutine that runs the Do callback or the release operation
\* holds fd.mu, in shared or in exclusive mode.
C19_LockNotHeldAcrossCallback ==
    \A t \in Threads :
        (api = "v2" /\ InFn(t)) \/ pc[t] = "release"
            => mu.r[t] = 0 /\ mu.w # t

\* C19 (amended) The lock of the FD is held across caller supplied code: a
\* goroutine that runs the Do callback holds fd.mu in shared mode, and a
\* goroutine that runs the release operation holds fd.mu in exclusive
\* mode, no other goroutine holding it in any mode.
C19_LockHeldAcrossCallback ==
    \A t \in Threads :
        /\ api = "v2" /\ InFn(t) => mu.r[t] = 1 /\ ~mu.locked
        /\ pc[t] = "release" =>
              /\ mu.w = t /\ mu.locked
              /\ \A u \in Threads : mu.r[u] = 0 /\ (u # t => pc[u] # "release")

\* The release operation runs while another goroutine is asleep in the
\* RLock of Do.
C19_Witness ==
    \E t, u \in Threads :
        /\ api = "v2" /\ pc[t] = "release" /\ mu.w = t
        /\ pc[u] = "rlock" /\ u \in mu.blocked

----------------------------------------------------------------------------
(* Re-entrant release: caller supplied code that holds the FD (the Do      *)
(* callback, or v1 code between Incref and Decref) calls Close on that FD. *)
(* fd.mu.Lock() is requested while the goroutine holds its read lock.      *)
ReentrantCloseCall(t) ==
    /\ pc[t] = "fn"
    /\ pc' = [pc EXCEPT ![t] = "fn_close_wait"]
    /\ UNCHANGED <<fds, rlast, api, fd, mu, finalizer, lreg, frame, last, life, okInit, released, drain>>

NextReentrant ==
    \/ Next
    \/ \E t \in Threads : ReentrantCloseCall(t)

SpecReentrant == Init /\ [][NextReentrant]_vars

\* The goroutine is inside a Close it called from code that holds the FD.
Reentrant(t) == pc[t] \in {"fn_close_wait", "fn_close_pending"}

\* C11 Re-entrant release deadlocks: once a Do callback has called Close on
\* its own FD, that Close stays blocked in fd.mu.Lock() in every later
\* state: it never returns (no result is recorded for it), the enclosing Do
\* never returns (its read lock is never dropped), the release operation is
\* never invoked again and the FD is never marked closed.
C11_ReentrantCloseDeadlocks ==
    [][\A t \in Threads :
          Reentrant(t) =>
              /\ Reentrant(t)'
              /\ mu.r[t] = 1 /\ mu'.r[t] = 1
              /\ ~fd.closed /\ ~fd'.closed
              /\ released' = released
              /\ last'.op = "Close" => last' = last]_vars

\* The nested Close is the pending writer and waits for the read lock of
\* the Do call it was made from; the other goroutine is blocked behind it.
C11_Witness ==
    \E t, u \in Threads :
        /\ api = "v2" /\ pc[t] = "fn_close_pending" /\ mu.w = t /\ mu.r[t] = 1
        /\ pc[u] = "close_wait"
        /\ fd.initialized /\ ~fd.closed

----------------------------------------------------------------------------
(* FDStats and its Report.                                                 *)

\* The text FDStats makes of the stack recorded by recordInit: the lines
\* naming its function and its file.
StackString(site) == <<<<"function", site>>, <<"file", site>>>>

ZeroStats == [Initialized |-> 0, Closed |-> 0, CloseFailed |-> 0, InFlightStacks |-> {}]

\* lr.FDStats(): lr may be nil.
FDStatsNoNilCheck(l, reg) ==
    [Initialized |-> reg.initialized, Closed |-> reg.closed,
     CloseFailed |-> reg.closeFailed,
     InFlightStacks |-> {<<e[1], StackString(e[2])>> : e \in reg.inFlight}]
FDStats(l, reg) == IF l = Nil THEN ZeroStats ELSE FDStatsNoNilCheck(l, reg)

leakedFDsIgnoringFailed(stats) == stats.Initialized # stats.Closed
leakedFDs(stats) == stats.Initialized # stats.Closed + stats.CloseFailed

\* The lines Report writes for the in-flight entries.  Go iterates over the
\* map in an unspecified order; the order taken here is an arbitrary one.
RECURSIVE InFlightLines(_)
InFlightLines(entries) ==
    IF entries = {} THEN <<>>
    ELSE LET e == CHOOSE x \in entries : TRUE
         IN <<<<"FD=", e[1], " initialized at:">>>> \o e[2] \o <<<<"----------------">>>>
            \o InFlightLines(entries \ {e})

\* stats.Report(), as the sequence of its lines (a line is the sequence of
\* its pieces); <<>> is the empty string.
Report(stats) ==
    IF ~leakedFDs(stats) THEN <<>>
    ELSE <<<<"file descriptor report:">>,
           <<"initialized ", stats.Initialized, " FDs">>,
           <<"closed ", stats.Closed, " FDs successfully">>,
           <<"closed ", stats.CloseFailed, " FDs unsuccessfully">>,
           <<"file descriptors in flight:">>,
           <<"----------------">>>> \o InFlightLines(stats.InFlightStacks)

\* The handles Report lists as in flight.
ReportedFDs(report) ==
    {report[k][2] : k \in {j \in DOMAIN report : Len(report[j]) = 3 /\ report[j][1] = "FD="}}

----------------------------------------------------------------------------
(* The operations of one FD struct f that reports to the registry reg, as  *)
(* the code runs them under fd.mu: the new struct, the new registry and    *)
(* the result.                                                             *)

\* f.Init(h, cf), called from site.  (The RecordsFirst variant reports to
\* the registry before it checks the flags.)
FdInitRecordsFirst(f, reg, h, cf, site) ==
    LET err == InitErr(f)
    IN [fd |-> IF err # Nil THEN f
               ELSE [f EXCEPT !.rawfd = h, !.initialized = TRUE, !.closeFunc = cf],
        reg |-> recordInit(f.lr, reg, h, site),
        err |-> err]
FdInit(f, reg, h, cf, site) ==
    LET err == InitErr(f)
    IN IF err # Nil THEN [fd |-> f, reg |-> reg, err |-> err]
       ELSE [fd |-> [f EXCEPT !.rawfd = h, !.initialized = TRUE, !.closeFunc = cf],
             reg |-> recordInit(f.lr, reg, h, site),
             err |-> Nil]

\* f.Do(fn), where fn returns r: the result, and the descriptor fn was
\* called with (None when it was not called).
FdDo(f, r) ==
    IF DoErr(f) # Nil THEN [err |-> DoErr(f), out |-> None]
    ELSE [err |-> DoResult(r), out |-> DoArg(f)]

\* f.Close() up to the call of the release operation.
FdCloseCheck(f) ==
    IF CloseErr(f) # Nil THEN [fd |-> f, err |-> CloseErr(f)]
    ELSE [fd |-> MarkClosed(f), err |-> Nil]

\* f.Close() from the return of the release operation, which returned e.
\* (The ViaRegistry variant reports the error only when it had a registry
\* to record it in.)
FdCloseReturnViaRegistry(f, reg, e) ==
    [reg |-> recordClose(f.lr, reg, f.rawfd, e),
     err |-> IF f.lr = Nil THEN Nil ELSE CloseResult(e)]
FdCloseReturn(f, reg, e) ==
    [reg |-> recordClose(f.lr, reg, f.rawfd, e), err |-> CloseResult(e)]

----------------------------------------------------------------------------
(* NFds FD structs and one LifetimeRegistry.  The calls on one FD are      *)
(* serialised by its lock, so each FD runs one call at a time; the calls   *)
(* on different FDs interleave at the call of the release operation.  The  *)
(* release operation of every FD is close(2), which succeeds or fails.     *)

\* A descriptor number is that of one open descriptor: the operating system
\* hands it out again only once a release operation has been called on it.
Open(i) == fds[i].initialized /\ ~fds[i].closed
HandleFree(i, h) == \A j \in FDs \ {i} : Open(j) => fds[j].rawfd # h

\* (Once Close has returned no code reads fd.lr again: the calls made from
\* then on are not modelled.)
RegTrackLifetime(i, l) ==
    /\ fds[i].lr # l
    /\ fds[i].closed => fds[i].releasing
    /\ fds' = [fds EXCEPT ![i].lr = l]
    /\ UNCHANGED <<rlast, api, fd, mu, finalizer, lreg, pc, frame, last, life, okInit, released, drain>>

RegInit(i, h, cf) ==
    /\ ~fds[i].releasing
    /\ HandleFree(i, h)
    /\ LET r == FdInit(fds[i], lreg, h, cf, i)
       IN /\ fds' = [fds EXCEPT ![i] = IF r.err = Nil
                                       THEN [r.fd EXCEPT !.lrInit = fds[i].lr]
                                       ELSE r.fd]
          /\ lreg' = r.reg
          /\ rlast' = [op |-> "Init", err |-> r.err, out |-> None]
    /\ UNCHANGED <<api, fd, mu, finalizer, pc, frame, last, life, okInit, released, drain>>

RegCloseCheck(i) ==
    /\ ~fds[i].releasing
    /\ LET r == FdCloseCheck(fds[i])
       IN IF r.err = Nil
          THEN /\ fds' = [fds EXCEPT ![i] = [r.fd EXCEPT !.releasing = TRUE]]
               /\ UNCHANGED rlast
          ELSE /\ rlast' = [op |-> "Close", err |-> r.err, out |-> None]
               /\ UNCHANGED fds
    /\ UNCHANGED <<api, fd, mu, finalizer, lreg, pc, frame, last, life, okInit, released, drain>>

RegCloseReturn(i, e) ==
    /\ fds[i].releasing
    /\ e \in CallCloseFunc(fds[i].closeFunc)
    /\ LET r == FdCloseReturn(fds[i], lreg, e)
       IN /\ lreg' = r.reg
          /\ rlast' = [op |-> "Close", err |-> r.err, out |-> None]
    /\ fds' = [fds EXCEPT ![i].releasing = FALSE, ![i].lrClose = fds[i].lr]
    /\ UNCHANGED <<api, fd, mu, finalizer, pc, frame, last, life, okInit, released, drain>>

\* FDStats is called on a nil registry.
NilFDStats ==
    /\ rlast' = [op |-> "FDStats", err |-> Nil, out |-> FDStats(Nil, lreg)]
    /\ UNCHANGED <<fds, api, fd, mu, finalizer, lreg, pc, frame, last, life, okInit, released, drain>>

InitReg == Init /\ api = "v2"

NextReg ==
    \/ \E i \in FDs :
        \/ \E l \in {Nil, "lreg"} : RegTrackLifetime(i, l)
        \/ \E h \in Handles : RegInit(i, h, SysClose)
        \/ RegCloseCheck(i)
        \/ \E e \in {Nil, ErrBad} : RegCloseReturn(i, e)
    \/ NilFDStats

SpecReg == InitReg /\ [][NextReg]_vars

----------------------------------------------------------------------------
\* Every FD that was initialized had the registry attached at its Init.
AllAttachedBeforeInit == \A i \in FDs : fds[i].initialized => fds[i].lrInit = "lreg"

InFlightKeys(stats) == {e[1] : e \in stats.InFlightStacks}

\* C13 Leaks stay listed: when every FD was attached to the registry before
\* its Init, the handle of every FD that was initialized and on which Close
\* was never called is a key of the in-flight set FDStats returns, and is
\* listed as an FD=<handle> entry by Report.
C13_LeaksStayListed ==
    AllAttachedBeforeInit =>
        \A i \in FDs :
            Open(i) =>
                /\ fds[i].rawfd \in InFlightKeys(FDStats("lreg", lreg))
                /\ fds[i].rawfd \in ReportedFDs(Report(FDStats("lreg", lreg)))

\* Steps of SpecReg: FD i completes a successful Init, FD i completes the
\* Close that called its release operation.
Initializes(i) == ~fds[i].initialized /\ fds'[i].initialized
Releases(i) == fds[i].releasing /\ ~fds'[i].releasing

\* The in-flight entries of reg other than that of descriptor h.
OtherEntries(reg, h) == {e \in reg.inFlight : e[1] # h}

\* C15 Init accounting: a successful Init on an FD with the registry
\* attached adds exactly one to initializedCount, leaves the other counters,
\* and stores the in-flight entry of its handle (replacing nothing else);
\* a step that returns ErrMultipleInit or ErrClosedFD from Init changes
\* neither the counters nor the in-flight entries.
C15_InitAccounting ==
    [][/\ \A i \in FDs :
            Initializes(i) /\ fds[i].lr = "lreg" =>
                /\ rlast'.op = "Init" /\ rlast'.err = Nil
                /\ lreg'.initialized = lreg.initialized + 1
                /\ lreg'.closed = lreg.closed /\ lreg'.closeFailed = lreg.closeFailed
                /\ <<fds'[i].rawfd, i>> \in lreg'.inFlight
                /\ OtherEntries(lreg', fds'[i].rawfd) = OtherEntries(lreg, fds'[i].rawfd)
       /\ rlast'.op = "Init" /\ rlast'.err \in {ErrMultipleInit, ErrClosedFD}
            => lreg' = lreg]_vars

\* An Init has failed with ErrMultipleInit on an FD whose first Init is on
\* record in the registry.
C15_Witness ==
    /\ rlast.op = "Init" /\ rlast.err = ErrMultipleInit
    /\ lreg.initialized = 1
    /\ \E i \in FDs : Open(i) /\ fds[i].lr = "lreg" /\ <<fds[i].rawfd, i>> \in lreg.inFlight

\* C16 Close accounting: the Close that called the release operation, on an
\* FD with the registry attached, adds one to closedCount when the release
\* operation returned nil and one to closeFailedCount otherwise, never to
\* both, and removes the handle from the in-flight set in either case; a
\* step that returns ErrUninitializedFD or ErrClosedFD from Close changes
\* neither the counters nor the in-flight entries.
C16_CloseAccounting ==
    [][/\ \A i \in FDs :
            Releases(i) /\ fds[i].lr = "lreg" =>
                /\ rlast'.op = "Close"
                /\ lreg'.closed = lreg.closed + (IF rlast'.err = Nil THEN 1 ELSE 0)
                /\ lreg'.closeFailed = lreg.closeFailed + (IF rlast'.err = Nil THEN 0 ELSE 1)
                /\ lreg'.initialized = lreg.initialized
                /\ lreg'.inFlight = OtherEntries(lreg, fds[i].rawfd)
       /\ rlast'.op = "Close" /\ rlast'.err \in {ErrUninitializedFD, ErrClosedFD}
            => lreg' = lreg]_vars

\* A Close whose release operation failed is on record, its handle is not
\* in flight, and a second Close has failed with ErrClosedFD.
C16_Witness ==
    /\ rlast.op = "Close" /\ rlast.err = ErrClosedFD
    /\ lreg.closeFailed = 1 /\ lreg.closed = 0 /\ lreg.initialized = 1
    /\ lreg.inFlight = {}
    /\ \E i \in FDs : fds[i].closed /\ fds[i].lrClose = "lreg"

\* C17 Registry nil-safety: with a nil registry attached, Init and Close
\* complete, with the results of the flag checks and of the release
\* operation, and their recordInit and recordClose leave the registry as it
\* is; FDStats on a nil registry returns zero counters and no in-flight
\* entry, whatever was done before.
C17_NilSafety ==
    /\ [](rlast.op = "FDStats" => rlast.out = ZeroStats)
    /\ [][\A i \in FDs :
             /\ Initializes(i) /\ fds[i].lr = Nil =>
                    lreg' = lreg /\ rlast'.op = "Init" /\ rlast'.err = Nil
             /\ Releases(i) /\ fds[i].lr = Nil =>
                    lreg' = lreg /\ rlast'.op = "Close" /\ rlast'.err \in {Nil, ErrBad}]_vars

\* FDStats was called on a nil registry after an FD with a nil registry
\* went through Init and Close, while the registry of another FD has an
\* Init on record.
C17_Witness ==
    /\ rlast.op = "FDStats"
    /\ lreg.initialized = 1 /\ lreg.inFlight # {}
    /\ \E i \in FDs : fds[i].closed /\ fds[i].lrInit = Nil /\ fds[i].lrClose = Nil

\* The counter arithmetic of leakedFDs, on the registry.
RegDiff == lreg.initialized - lreg.closed - lreg.closeFailed

\* No call is in progress on any FD.
Quiescent == \A i \in FDs : ~fds[i].releasing

\* The FDs that were attached before their Init and are Initialized now.
TrackedOpen == {i \in FDs : Open(i) /\ fds[i].lrInit = "lreg"}

\* The FDs whose Close was recorded and whose Init was not (attached only
\* after Init), and those whose Init was recorded and whose Close was not
\* (detached before Close).
LateAttached == {i \in FDs : fds[i].lrInit = Nil /\ fds[i].lrClose = "lreg"}
Detached == {i \in FDs : fds[i].lrInit = "lreg" /\ fds[i].lrClose = Nil}

\* C20 Accurate accounting requires attach-before-Init: when no call is in
\* progress and every FD that reported to the registry was attached before
\* its Init (and still at its Close), initializedCount - closedCount -
\* closeFailedCount is the number of those FDs that are Initialized, hence
\* not negative; once an FD attached only after its Init has been closed
\* the difference is smaller than that number.
C20_AttachBeforeInit ==
    /\ Quiescent /\ LateAttached = {} /\ Detached = {}
           => RegDiff = Cardinality(TrackedOpen) /\ RegDiff >= 0
    /\ Quiescent /\ LateAttached # {} /\ Detached = {}
           => RegDiff < Cardinality(TrackedOpen)

\* One FD attached before its Init is Initialized and another has been
\* closed, its release operation failing: the difference is one.
C20_Witness ==
    /\ Quiescent /\ LateAttached = {} /\ Detached = {}
    /\ Cardinality(TrackedOpen) = 1
    /\ lreg.initialized = 2 /\ lreg.closeFailed = 1

\* An FD attached only after its Init has been closed: the difference is
\* negative.
C20_LateAttachBreaks ==
    /\ Quiescent /\ LateAttached # {} /\ Detached = {}
    /\ RegDiff = -1 /\ TrackedOpen = {}

----------------------------------------------------------------------------
(* Report on every FDStats value: the registry holds any counters up to    *)
(* MaxCount and any in-flight entries, FDStats takes its snapshot and      *)
(* Report is applied to it.                                                *)

RegistryValues ==
    [mu : {0}, initialized : 0..MaxCount, closed : 0..MaxCount, closeFailed : 0..MaxCount,
     inFlight : {{<<h, 1>> : h \in S} : S \in SUBSET Handles}]

InitReport == InitFD /\ api = "v2" /\ lreg \in RegistryValues

CallReport(l) ==
    /\ rlast' = [op |-> "Report", err |-> Nil,
                 out |-> [stats |-> FDStats(l, lreg), report |-> Report(FDStats(l, lreg))]]
    /\ UNCHANGED <<fds, api, fd, mu, finalizer, lreg, pc, frame, last, life, okInit, released, drain>>

NextReport == \E l \in {Nil, "lreg"} : CallReport(l)

SpecReport == InitReport /\ [][NextReport]_vars

\* C14 Report emptiness: Report returns the empty string if and only if
\* Initialized = Closed + CloseFailed in the FDStats value it is applied
\* to.
C14_ReportEmptiness ==
    rlast.op = "Report" =>
        (rlast.out.report = <<>>
            <=> rlast.out.stats.Initialized
                    = rlast.out.stats.Closed + rlast.out.stats.CloseFailed)

\* The report is empty although the in-flight set is not: two FDs were
\* initialized, one Close succeeded and one failed.
C14_Witness ==
    /\ rlast.op = "Report" /\ rlast.out.report = <<>>
    /\ rlast.out.stats.Initialized = 2 /\ rlast.out.stats.Closed = 1
    /\ rlast.out.stats.CloseFailed = 1 /\ rlast.out.stats.InFlightStacks # {}

----------------------------------------------------------------------------
(* Two runs of one program, side by side: FD 1 has the registry attached   *)
(* or detached at any time, FD 2 never has TrackLifetime called.  Both get *)
(* the same calls with the same arguments, and their release operation and *)
(* callback return the same results.                                       *)

Twins == {1, 2}

TwinInit(h, cf) ==
    /\ \A i \in Twins : ~fds[i].releasing
    /\ LET r == [i \in Twins |-> FdInit(fds[i], lreg, h, cf, i)]
       IN /\ fds' = [i \in FDs |-> IF i \in Twins THEN r[i].fd ELSE fds[i]]
          /\ lreg' = r[1].reg
          /\ rlast' = [op |-> "Init", err |-> [i \in Twins |-> r[i].err],
                       out |-> [i \in Twins |-> None]]
    /\ UNCHANGED <<api, fd, mu, finalizer, pc, frame, last, life, okInit, released, drain>>

TwinDo(res) ==
    /\ \A i \in Twins : ~fds[i].releasing
    /\ LET r == [i \in Twins |-> FdDo(fds[i], res)]
       IN rlast' = [op |-> "Do", err |-> [i \in Twins |-> r[i].err],
                    out |-> [i \in Twins |-> r[i].out]]
    /\ UNCHANGED <<fds, api, fd, mu, finalizer, lreg, pc, frame, last, life, okInit, released, drain>>

\* Close up to the call of the release operation, or to its return when
\* the checks fail (None: the call has not returned).
TwinCloseCheck ==
    /\ \A i \in Twins : ~fds[i].releasing
    /\ LET r == [i \in Twins |-> FdCloseCheck(fds[i])]
       IN /\ fds' = [i \in FDs |-> IF i \in Twins
                                   THEN [r[i].fd EXCEPT !.releasing = (r[i].err = Nil)]
                                   ELSE fds[i]]
          /\ rlast' = [op |-> "Close",
                       err |-> [i \in Twins |-> IF r[i].err = Nil THEN None ELSE r[i].err],
                       out |-> [i \in Twins |-> IF r[i].err = Nil
                                                THEN <<fds[i].closeFunc, fds[i].rawfd>>
                                                ELSE None]]
    /\ UNCHANGED <<api, fd, mu, finalizer, lreg, pc, frame, last, life, okInit, released, drain>>

TwinCloseReturn(e) ==
    /\ \E i \in Twins : fds[i].releasing
    /\ \A i \in Twins : fds[i].releasing => e \in CallCloseFunc(fds[i].closeFunc)
    /\ LET r == [i \in Twins |-> FdCloseReturn(fds[i], lreg, e)]
       IN /\ lreg' = IF fds[1].releasing THEN r[1].reg ELSE lreg
          /\ rlast' = [rlast EXCEPT !.err = [i \in Twins |-> IF fds[i].releasing
                                                              THEN r[i].err ELSE @[i]]]
    /\ fds' = [i \in FDs |-> [fds[i] EXCEPT !.releasing = FALSE]]
    /\ UNCHANGED <<api, fd, mu, finalizer, pc, frame, last, life, okInit, released, drain>>

NextTwin ==
    \/ \E l \in {Nil, "lreg"} : RegTrackLifetime(1, l)
    \/ \E h \in Handles, cf \in CloseFuncs : TwinInit(h, cf)
    \/ \E res \in FnResults : TwinDo(res)
    \/ TwinCloseCheck
    \/ \E e \in {Nil, ErrBad} : TwinCloseReturn(e)

SpecTwin == InitReg /\ [][NextTwin]_vars

\* What the guard is, the registry aside: the fields of the FD and whether
\* its release operation is running.
GuardView(f) ==
    [rawfd |-> f.rawfd, initialized |-> f.initialized, closed |-> f.closed,
     closeFunc |-> f.closeFunc, releasing |-> f.releasing]

\* C18 The registry never influences the guard: after the same calls, the
\* FD that had a registry (or a nil registry) attached and the FD that had
\* none are in the same state with the same handle, have returned the same
\* results, have handed the same descriptor to the callback and have
\* invoked the same release operation on the same descriptor.
C18_RegistryNeverInfluences ==
    /\ GuardView(fds[1]) = GuardView(fds[2])
    /\ rlast.op # None => rlast.err[1] = rlast.err[2] /\ rlast.out[1] = rlast.out[2]

\* Both Close calls have returned the error of the release operation, and
\* the registry of FD 1 has its Init and its failed Close on record.
C18_Witness ==
    /\ rlast.op = "Close" /\ rlast.err[1] = ErrBad /\ rlast.err[2] = ErrBad
    /\ fds[1].closed /\ ~fds[1].releasing /\ fds[1].lr = "lreg" /\ fds[2].lr = Nil
    /\ lreg.initialized = 1 /\ lreg.closeFailed = 1

----------------------------------------------------------------------------
\* C21 Init after Close in the Incref/Decref variant: an Init that returns
\* after a Close of the FD has returned fails with ErrClosedFD, and the FD
\* is not re-initialized (its descriptor is still that of the first Init).
C21_V1InitAfterClose ==
    api = "v1" /\ last.op = "Init" /\ last.life \in {"closed", "close_failed"}
        => last.err = ErrClosedFD /\ fd.closed /\ fd.rawfd = okInit.h

----------------------------------------------------------------------------
(* WrapSyscallError, applied by the callers of Do, Close and Init to the   *)
(* error the call returned.  The value of a Go error is modelled by its    *)
(* dynamic type: the error as it was returned, or the *os.SyscallError     *)
(* that os.NewSyscallError makes of it.                                    *)

SyscallNames == {"read", "close"}

Same(err) == [type |-> "same", Syscall |-> None, Err |-> err]

\* os.NewSyscallError returns nil for a nil error.
NewSyscallError(syscall, err) ==
    IF err = Nil THEN Same(Nil)
    ELSE [type |-> "*os.SyscallError", Syscall |-> syscall, Err |-> err]

\* (The AllSentinels variant also passes ErrMultipleInit through.)
WrapSyscallErrorAllSentinels(syscall, err) ==
    CASE err = Nil -> Same(Nil)
      [] err \in {ErrUninitializedFD, ErrClosedFD, ErrMultipleInit} -> Same(err)
      [] OTHER -> NewSyscallError(syscall, err)
WrapSyscallError(syscall, err) ==
    CASE err = Nil -> Same(Nil)
      [] err \in {ErrUninitializedFD, ErrClosedFD} -> Same(err)
      [] OTHER -> NewSyscallError(syscall, err)

\* The caller of the call that returned last wraps its error.
WrapLast(syscall) ==
    /\ last.op # None
    /\ rlast' = [op |-> "WrapSyscallError", err |-> WrapSyscallError(syscall, last.err),
                 out |-> [syscall |-> syscall, err |-> last.err]]
    /\ UNCHANGED <<fds, api, fd, mu, finalizer, lreg, pc, frame, last, life, okInit, released, drain>>

NextWrap ==
    \/ NextV2
    \/ \E syscall \in SyscallNames : WrapLast(syscall)

SpecWrap == InitV2 /\ [][NextWrap]_vars

\* C22 WrapSyscallError(name, err) returns nil for nil, err itself for
\* ErrUninitializedFD and ErrClosedFD, and for every other error (among
\* them ErrMultipleInit, the errors of callbacks and of release operations)
\* a new error that carries name and err.
C22_WrapSyscallError ==
    rlast.op = "WrapSyscallError" =>
        LET name == rlast.out.syscall
            err == rlast.out.err
            res == rlast.err
        IN /\ err = Nil => res = Same(Nil)
           /\ err \in {ErrUninitializedFD, ErrClosedFD} => res = Same(err)
           /\ err \notin {Nil, ErrUninitializedFD, ErrClosedFD} =>
                 /\ res.type = "*os.SyscallError"
                 /\ res.Syscall = name /\ res.Err = err

\* ErrMultipleInit was wrapped.
C22_Witness ==
    /\ rlast.op = "WrapSyscallError"
    /\ rlast.out.err = ErrMultipleInit
    /\ rlast.err = [type |-> "*os.SyscallError", Syscall |-> "read", Err |-> ErrMultipleInit]

----------------------------------------------------------------------------
(* The finalizer runs: the runtime calls FD.Close from its own goroutine   *)
(* when the finalizer is set and the FD is unreachable: the goroutines    *)
(* have dropped it and are gone, none is in a call.  The goroutine t       *)
(* stands for the finalizer goroutine.  (That the runtime clears the       *)
(* finalizer before it runs it is not modelled, so the finalizer may run   *)
(* more often here than it does.)                                          *)
FinalizerClose(t) ==
    /\ finalizer
    /\ \A u \in Threads : pc[u] = "idle"
    /\ pc' = [u \in Threads |-> IF u = t THEN "close_wait" ELSE "gone"]
    /\ drain' = [drain EXCEPT ![t] = NoDrain]
    /\ UNCHANGED <<fds, rlast, api, fd, mu, finalizer, lreg, frame, last, life, okInit, released>>

NextFinalizer ==
    \/ Next
    \/ \E t \in Threads : FinalizerClose(t)

SpecFinalizer == Init /\ [][NextFinalizer]_vars

----------------------------------------------------------------------------
(* The lock of the registry.  Every FD has a goroutine of its own (i),     *)
(* one more goroutine (StatsCaller) calls FDStats; Init and Close are      *)
(* taken apart at lr.mu.Lock() and at the call of the release operation.   *)
(* TrackLifetime is called before Init, as its documentation asks; what    *)
(* the calls return is as in SpecReg and is not recorded here.             *)

StatsCaller == NFds + 1

\* The lock of the registry as Close leaves it when it calls the release
\* operation.  (The Held variant takes it before the call.)
MuAtReleaseHeld(m, i) == i
MuAtRelease(m, i) == m

LkTrackLifetime(i) ==
    /\ ~fds[i].initialized /\ fds[i].lr = Nil
    /\ fds' = [fds EXCEPT ![i].lr = "lreg"]
    /\ UNCHANGED <<rlast, api, fd, mu, finalizer, lreg, pc, frame, last, life, okInit, released, drain>>

\* f.Init(h, closeFunc) up to the call of recordInit, which returns at once
\* on a nil registry.
LkInit(i, h) ==
    /\ fds[i].at = "idle"
    /\ HandleFree(i, h)
    /\ IF InitErr(fds[i]) # Nil
       THEN UNCHANGED fds
       ELSE fds' = [fds EXCEPT ![i].rawfd = h, ![i].initialized = TRUE,
                               ![i].closeFunc = SysClose, ![i].lrInit = fds[i].lr,
                               ![i].at = IF fds[i].lr = Nil THEN "idle" ELSE "init_wait_lr"]
    /\ UNCHANGED <<rlast, api, fd, mu, finalizer, lreg, pc, frame, last, life, okInit, released, drain>>

\* lr.mu.Lock() in recordInit and in recordClose.
LkLock(i) ==
    /\ fds[i].at \in {"init_wait_lr", "close_wait_lr"}
    /\ lreg.mu = 0
    /\ lreg' = [lreg EXCEPT !.mu = i]
    /\ fds' = [fds EXCEPT ![i].at = IF @ = "init_wait_lr" THEN "init_in_lr" ELSE "close_in_lr"]
    /\ UNCHANGED <<rlast, api, fd, mu, finalizer, pc, frame, last, life, okInit, released, drain>>

\* recordInit under lr.mu, its Unlock, and the return of Init.
LkRecordInit(i) ==
    /\ fds[i].at = "init_in_lr"
    /\ lreg' = [recordInit("lreg", lreg, fds[i].rawfd, i) EXCEPT !.mu = 0]
    /\ fds' = [fds EXCEPT ![i].at = "idle"]
    /\ UNCHANGED <<rlast, api, fd, mu, finalizer, pc, frame, last, life, okInit, released, drain>>

\* f.Close() up to the call of the release operation.
LkCloseCheck(i) ==
    /\ fds[i].at = "idle"
    /\ LET r == FdCloseCheck(fds[i])
       IN IF r.err # Nil
          THEN UNCHANGED <<fds, lreg>>
          ELSE /\ fds' = [fds EXCEPT ![i] = [r.fd EXCEPT !.releasing = TRUE, !.at = "release"]]
               /\ lreg' = [lreg EXCEPT !.mu = MuAtRelease(@, i)]
    /\ UNCHANGED <<rlast, api, fd, mu, finalizer, pc, frame, last, life, okInit, released, drain>>

\* The release operation returns e; Close calls recordClose, which returns
\* at once on a nil registry.
LkRelease(i, e) ==
    /\ fds[i].at = "release"
    /\ e \in CallCloseFunc(fds[i].closeFunc)
    /\ IF fds[i].lr = Nil
       THEN fds' = [fds EXCEPT ![i].at = "idle", ![i].releasing = FALSE, ![i].lrClose = Nil]
       ELSE fds' = [fds EXCEPT ![i].at = "close_wait_lr", ![i].res = e]
    /\ UNCHANGED <<rlast, api, fd, mu, finalizer, lreg, pc, frame, last, life, okInit, released, drain>>

\* recordClose under lr.mu, its Unlock, and the return of Close.
LkRecordClose(i) ==
    /\ fds[i].at = "close_in_lr"
    /\ lreg' = [recordClose("lreg", lreg, fds[i].rawfd, fds[i].res) EXCEPT !.mu = 0]
    /\ fds' = [fds EXCEPT ![i].at = "idle", ![i].releasing = FALSE, ![i].lrClose = "lreg",
                          ![i].res = Nil]
    /\ UNCHANGED <<rlast, api, fd, mu, finalizer, pc, frame, last, life, okInit, released, drain>>

\* f.Do(fn) up to the call of fn, and the return of fn.
LkDo(i) ==
    /\ fds[i].at = "idle"
    /\ IF DoErr(fds[i]) # Nil
       THEN UNCHANGED fds
       ELSE fds' = [fds EXCEPT ![i].at = "fn"]
    /\ UNCHANGED <<rlast, api, fd, mu, finalizer, lreg, pc, frame, last, life, okInit, released, drain>>

LkDoReturn(i) ==
    /\ fds[i].at = "fn"
    /\ fds' = [fds EXCEPT ![i].at = "idle"]
    /\ rlast' = [op |-> "Do", err |-> Nil, out |-> None]
    /\ UNCHANGED <<api, fd, mu, finalizer, lreg, pc, frame, last, life, okInit, released, drain>>

\* lr.FDStats(): lr.mu.Lock(), then the snapshot and the Unlock.
LkStatsLock ==
    /\ lreg.mu = 0
    /\ lreg' = [lreg EXCEPT !.mu = StatsCaller]
    /\ UNCHANGED <<fds, rlast, api, fd, mu, finalizer, pc, frame, last, life, okInit, released, drain>>

LkStats ==
    /\ lreg.mu = StatsCaller
    /\ lreg' = [lreg EXCEPT !.mu = 0]
    /\ rlast' = [op |-> "FDStats", err |-> Nil, out |-> None]
    /\ UNCHANGED <<fds, api, fd, mu, finalizer, pc, frame, last, life, okInit, released, drain>>

NextLock ==
    \/ \E i \in FDs :
        \/ LkTrackLifetime(i)
        \/ \E h \in Handles : LkInit(i, h)
        \/ LkLock(i)
        \/ LkRecordInit(i)
        \/ LkCloseCheck(i)
        \/ \E e \in {Nil, ErrBad} : LkRelease(i, e)
        \/ LkRecordClose(i)
        \/ LkDo(i)
        \/ LkDoReturn(i)
    \/ LkStatsLock
    \/ LkStats

SpecLock == InitReg /\ [][NextLock]_vars


\* C24: the lock of the registry is held only inside recordInit, recordClose
\* and FDStats: never while a release operation or a Do callback runs, and
\* never by a goroutine that waits for it.  Whoever holds it can always take
\* the step that gives it back, so FDStats running concurrently with Init and
\* Close of tracked FDs cannot deadlock.
C24_RegistryLockNotHeldAcrossCallbacks ==
    /\ lreg.mu \in {0, StatsCaller} \cup FDs
    /\ \A i \in FDs :
        /\ fds[i].at \in {"release", "fn", "init_wait_lr", "close_wait_lr", "idle"} => lreg.mu # i
        /\ lreg.mu = i => fds[i].at \in {"init_in_lr", "close_in_lr"} /\ fds[i].lr = "lreg"
    /\ lreg.mu # 0 => ENABLED (LkStats \/ \E i \in FDs : LkRecordInit(i) \/ LkRecordClose(i))

\* FDStats holds the lock while one tracked FD runs its release operation and
\* another waits for the lock in recordInit or recordClose.
C24_Witness ==
    /\ lreg.mu = StatsCaller
    /\ \E i, j \in FDs :
        /\ i # j
        /\ fds[i].at = "release" /\ fds[i].lr = "lreg"
        /\ fds[j].at \in {"init_wait_lr", "close_wait_lr"}


\* C25 A failed Init changes nothing: the step in which an Init returns
\* ErrMultipleInit or ErrClosedFD leaves the fields of the FD, the finalizer,
\* the registry and the record of releases as they were; so while the FD is
\* initialized it holds the handle and the release operation of the Init
\* that succeeded, callbacks run on that handle and a release is that
\* operation on that handle, however many Inits have failed since.
InitReturns(t) == pc[t] = "init_pending" /\ pc'[t] = "idle"
C25_FailedInitChangesNothing ==
    /\ [](/\ fd.initialized => fd.rawfd = okInit.h /\ fd.closeFunc = okInit.cf
          /\ \A t \in Threads : pc[t] = "fn" => frame[t].h = okInit.h
          /\ \A i \in 1..Len(released) : released[i] = okInit)
    /\ [][\A t \in Threads :
            InitReturns(t) /\ last'.err # Nil =>
                /\ last'.op = "Init"
                /\ last'.err \in {ErrMultipleInit, ErrClosedFD}
                /\ fd' = fd
                /\ finalizer' = finalizer
                /\ lreg' = lreg
                /\ released' = released
                /\ okInit' = okInit]_vars

\* An Init has just returned ErrMultipleInit and the FD, still open, holds the
\* handle and the release operation of the first Init, finalizer set.
C25_Witness ==
    /\ last.op = "Init" /\ last.err = ErrMultipleInit
    /\ fd.initialized /\ ~fd.closed
    /\ okInit = [h |-> 42, cf |-> "dummyClose"]
    /\ fd.rawfd = 42 /\ fd.closeFunc = "dummyClose"
    /\ finalizer


-----------------------------------------------------------------------------
(* Concurrent Init.  Goroutine t calls Init(HandleOf(t), CfOf(t)); all the *)
(* calls are made before the first of them returns, and what each returned *)
(* is kept in rlast.out.  Do (Incref, Decref) may be called at any time,   *)
(* Close once the Init calls have returned.                                *)

HandleOf(t) == 41 + t
CfOf(t) == IF t % 2 = 1 THEN "dummyClose" ELSE "badClose"
InitArgs(t) == [h |-> HandleOf(t), cf |-> CfOf(t)]

Results == IF rlast.op = "Init" THEN rlast.out ELSE {}
RaceOver == Results # {} /\ \A t \in Threads : pc[t] \notin {"init_wait", "init_pending"}

RaceInitCall(t) ==
    /\ pc[t] = "idle"
    /\ Results = {}
    /\ pc' = [pc EXCEPT ![t] = "init_wait"]
    /\ UNCHANGED <<fds, rlast, api, fd, mu, finalizer, lreg, frame, last, life, okInit, released, drain>>

\* Init(HandleOf(t), CfOf(t)) under the lock, up to its return.
RaceInit(t) ==
    /\ pc[t] = "init_pending"
    /\ LockGranted(mu)
    /\ LET err == IF api = "v2" THEN InitErr(fd) ELSE InitErrV1(fd)
       IN /\ fd' = InitStore(fd, HandleOf(t), CfOf(t), err)
          /\ IF err = Nil
             THEN /\ lreg' = recordInit(fd.lr, lreg, HandleOf(t), t)
                  /\ finalizer' = TRUE
                  /\ okInit' = InitArgs(t)
                  /\ life' = "init"
             ELSE UNCHANGED <<lreg, finalizer, okInit, life>>
          /\ last' = Ev("Init", err, 0, None)
          /\ rlast' = [op |-> "Init", err |-> err,
                       out |-> Results \cup {[t |-> t, err |-> err]}]
    /\ mu' = Unlock(mu)
    /\ pc' = Woken(mu, t, pc)
    /\ UNCHANGED <<fds, api, frame, released, drain>>

NextRace ==
    \E t \in Threads :
        \/ RaceInitCall(t)
        \/ Lock(t)
        \/ RaceInit(t)
        \/ DoCall(t)
        \/ DoCheck(t)
        \/ \E r \in FnResults : DoReturn(t, r)
        \/ IncrefCall(t)
        \/ IncrefCheck(t)
        \/ Decref(t)
        \/ RaceOver /\ CloseCall(t)
        \/ CloseCheck(t)
        \/ \E e \in {Nil, ErrBad} : CloseReturn(t, e)

SpecRace == Init /\ [][NextRace]_vars

\* C26 Concurrent Init has one winner: of the Init calls made concurrently
\* on an uninitialized FD, exactly one has returned nil once any has returned
\* and every other returns ErrMultipleInit; the FD holds the handle and the
\* release operation of that call, callbacks run on its handle, and what is
\* released is its handle by its release operation.
C26_ConcurrentInitOneWinner ==
    Results # {} =>
        \E w \in Threads :
            /\ [t |-> w, err |-> Nil] \in Results
            /\ \A r \in Results : r.t # w => r.err = ErrMultipleInit
            /\ fd.initialized
            /\ fd.rawfd = HandleOf(w) /\ fd.closeFunc = CfOf(w)
            /\ \A t \in Threads : pc[t] = "fn" => frame[t].h = HandleOf(w)
            /\ \A i \in 1..Len(released) : released[i] = InitArgs(w)

\* Every goroutine has called Init, the one that won is not the first
\* goroutine, and the FD was released by the winner's operation.
C26_Witness ==
    /\ RaceOver
    /\ {r.t : r \in Results} = Threads
    /\ [t |-> 2, err |-> Nil] \in Results
    /\ released = <<InitArgs(2)>>


\* C27 A failed Incref holds no reference (v1): the step in which Incref
\* returns ErrUninitializedFD or ErrClosedFD gives the read lock back, so a
\* goroutine holds a read lock exactly while it is in Incref or between a
\* successful Incref and its Decref, and a Close is granted the lock whenever
\* no goroutine is there, whatever Incref calls have failed before.
Holder(t) == pc[t] \in {"check", "fn"}
C27_FailedIncrefHoldsNothing ==
    /\ [](api = "v1" =>
            /\ \A t \in Threads : mu.r[t] = IF Holder(t) THEN 1 ELSE 0
            /\ (\A t \in Threads : ~Holder(t)) => LockGranted(mu))
    /\ [][api = "v1" =>
            \A t \in Threads :
                pc[t] = "check" /\ pc'[t] = "idle" =>
                    /\ last'.op = "Incref"
                    /\ last'.err \in {ErrUninitializedFD, ErrClosedFD}
                    /\ last'.h = 0
                    /\ mu'.r[t] = 0
                    /\ fd' = fd]_vars

\* An Incref has failed, no reference is held, and a Close that has asked for
\* the lock can go on.
C27_Witness ==
    /\ api = "v1"
    /\ last.op = "Incref" /\ last.err \in {ErrUninitializedFD, ErrClosedFD}
    /\ \E t \in Threads :
        /\ pc[t] = "close_pending"
        /\ \A u \in Threads \ {t} : pc[u] = "idle"
        /\ LockGranted(mu)


-----------------------------------------------------------------------------
(* Nested Do: the callback of a Do calls Do again on the same FD.          *)
(* The return of the inner call is recorded as "NestedDo".                 *)

\* The inner fd.mu.RLock(), requested with the read lock of the outer Do held.
NestedDoCall(t) ==
    /\ api = "v2"
    /\ pc[t] = "fn"
    /\ mu' = RLock(mu, t)
    /\ pc' = [pc EXCEPT ![t] = IF RLockGranted(mu) THEN "fn_check" ELSE "fn_rlock"]
    /\ UNCHANGED <<fds, rlast, api, fd, finalizer, lreg, frame, last, life, okInit, released, drain>>

\* The inner Do holding its read lock: the checks, then the inner callback.
NestedDoCheck(t) ==
    /\ pc[t] = "fn_check"
    /\ IF DoErr(fd) = Nil
       THEN /\ pc' = [pc EXCEPT ![t] = "fn_fn"]
            /\ UNCHANGED <<mu, last>>
       ELSE /\ pc' = [pc EXCEPT ![t] = "fn"]
            /\ mu' = RUnlock(mu, t)
            /\ last' = Ev("NestedDo", DoErr(fd), 0, None)
    /\ UNCHANGED <<fds, rlast, api, fd, finalizer, lreg, frame, life, okInit, released, drain>>

\* The inner callback returns r: the inner Do gives its read lock back and
\* returns into the outer callback.
NestedDoReturn(t, r) ==
    /\ pc[t] = "fn_fn"
    /\ pc' = [pc EXCEPT ![t] = "fn"]
    /\ mu' = RUnlock(mu, t)
    /\ last' = Ev("NestedDo", DoResult(r), DoArg(fd), r)
    /\ UNCHANGED <<fds, rlast, api, fd, finalizer, lreg, frame, life, okInit, released, drain>>

NextNested ==
    \/ NextV2
    \/ \E t \in Threads :
        \/ NestedDoCall(t)
        \/ NestedDoCheck(t)
        \/ \E r \in FnResults : NestedDoReturn(t, r)

SpecNested == InitV2 /\ [][NextNested]_vars

\* C28 Nested Do can deadlock: an inner Do asked for while another goroutine
\* has requested the exclusive lock is put to sleep (and is served at once
\* otherwise); from then on the inner Do stays asleep, the outer Do keeps its
\* read lock, and the goroutine that requested the exclusive lock stays where
\* it is, in every later state: none of the three calls returns, the FD is
\* not marked closed and nothing is released.
C28_NestedDoDeadlocks ==
    [][\A t \in Threads :
          /\ pc[t] = "fn" /\ pc'[t] \in {"fn_check", "fn_rlock"} =>
                (pc'[t] = "fn_rlock" <=> mu.w # 0)
          /\ pc[t] = "fn_rlock" =>
                /\ pc'[t] = "fn_rlock"
                /\ mu.r[t] = 1 /\ mu'.r[t] = 1
                /\ mu.w \in Threads \ {t} /\ mu'.w = mu.w
                /\ ~mu.locked /\ ~mu'.locked
                /\ pc[mu.w] \in {"init_pending", "close_pending"}
                /\ pc'[mu.w] = pc[mu.w]
                /\ fd'.closed = fd.closed
                /\ released' = released]_vars

\* The inner Do of one goroutine sleeps behind the Close of another, which
\* waits for the read lock of the outer Do; the FD is open.
C28_Witness ==
    \E t, u \in Threads :
        /\ pc[t] = "fn_rlock"
        /\ pc[u] = "close_pending" /\ mu.w = u
        /\ mu.r[t] = 1
        /\ fd.initialized /\ ~fd.closed

====
